---- MODULE Spec2Model ----
(***************************************************************************)
(* A model of the Redis Cluster demonstration scripts:                     *)
(*   verify_hash_tags.py, cluster_distribution_demo.py,                    *)
(*   category_products_demo.py, demo.py, clear_redis.py and                *)
(*   real_world_example.py.                                                *)
(*                                                                         *)
(* Keys are sequences of byte values (ASCII codes), so that the hash slot  *)
(* of a key is computed as the cluster computes it: CRC16 (XMODEM) of the  *)
(* hash tag, or of the whole key, modulo 16384.                            *)
(***************************************************************************)
EXTENDS Integers, Sequences, FiniteSets, TLC

VARIABLES
    \* --- slot-owner sweep (get_master_for_slot over the slot space)
    slot,            \* the slot resolved last, -1 before the first
    owner,           \* what get_master_for_slot returned for it
    nodes,           \* per master, how many slots resolved to it
    \* --- key-slot computation on a pair of keys
    k1, k2,          \* two keys
    slot1, slot2,    \* their slots once computed, -1 before
    \* --- a script (or one operation of it) running against the store
    script,          \* which script or operation runs
    pc,              \* where it is
    exit,            \* "running", "returned" or "exception"
    console,         \* the kinds of message printed so far
    issued,          \* the kinds of store command issued so far
    store,           \* the store: key -> value, keys that exist only
    \* --- hash write and read back
    mapping,         \* the fields written
    prior,           \* what the key held before the write
    product,         \* what hgetall returned
    \* --- the scripts' own variables
    rc,              \* the connection: "none", "connected" or "failed"
    step,            \* how many commands of the script's body were issued
    cat,             \* index of the category the loop is at
    prod,            \* index of the product the inner loop is at
    category_slots,  \* category name -> slot of its category key
    marks,           \* the slot comparisons printed: key, slot, against, same
    all_slots,       \* per verified category, the slots of all its keys
    all_same,        \* per verified category, the flag printed
    category_locations, \* verify_hash_tags: category -> slot, master, ip
    slots_no_tag,    \* slots of the keys without a hash tag
    all_same_no_tag, \* <<flag>> once computed
    all_keys,        \* the keys the final scan returned
    key_nodes,       \* verify_hash_tags: master -> keys charged to it
    \* --- clear_redis.py
    total_keys,      \* keys counted before the deletion
    keys_by_node,    \* master -> keys counted
    deleted_count,   \* deletes that did not raise
    scan_left,       \* keys the deletion loop's scan has still to yield
    remaining_keys,  \* keys the verification scan found
    attempts,        \* key -> number of rc.delete calls made for it
    failed,          \* keys whose rc.delete raised
    others,          \* whether other clients write to the store meanwhile
    \* --- reserve_stock, called by several clients on one product
    cpc,             \* client -> where its call of reserve_stock is
    quantity,        \* client -> the quantity its call asks for
    current_stock,   \* client -> what check_stock returned to it
    result,          \* client -> "True", "False" or "exception"; "none" before
    acquired,        \* client -> whether the set-if-absent of its call succeeded
    entered,         \* client -> whether its call ran the body of the try
    deletes,         \* client -> deletes of the lock key its call issued
    decremented,     \* client -> whether its call applied the hincrby
    calls,           \* calls of reserve_stock started so far
    reserved,        \* total quantity of the calls that returned True
    initial_stock,   \* what check_stock gives before any call
    \* --- check_rate_limit, called by several clients for one IP address
    rl_pc,           \* client -> where its call of check_rate_limit is
    current,         \* client -> what incr returned to it
    verdict,         \* client -> what its call returned: allowed, text, n, max
    this_n,          \* client -> which request of the window its call was
    ttl,             \* seconds the counter key has left, -1 when it has no expiry
    window_n,        \* requests made since the counter was created
    window_age,      \* seconds gone since the expiry of the counter was set
    expire_by,       \* the requests of the window (by number) that set the expiry
    rate_calls,      \* calls of check_rate_limit started so far
    max_requests,    \* the limit the calls are made with
    window,          \* the window (seconds) the calls are made with
    \* --- the capped collections
    collection,      \* which collection the run adds to
    cap_pc,          \* "idle", or "trim" between the add and the trim
    pushed,          \* how many entries were added so far
    clock,           \* time.time() at the last add
    last_added,      \* trending: product -> time of its last add
    \* --- get_node_for_key
    topology,        \* what rc.cluster_nodes() returns
    lookup_slot,     \* the slot of the key looked up
    lookup_result    \* what get_node_for_key returned

ownerVars == <<slot, owner, nodes>>
keyVars   == <<k1, k2, slot1, slot2>>
runVars   == <<script, pc, exit, console, issued, store>>
hashVars  == <<mapping, prior, product>>
connVars  == <<rc, step>>
demoVars  == <<cat, prod, category_slots, marks, all_slots, all_same,
               category_locations, slots_no_tag, all_same_no_tag, all_keys,
               key_nodes>>
clearVars == <<total_keys, keys_by_node, deleted_count, scan_left,
               remaining_keys, attempts, failed, others>>
scriptVars == <<connVars, demoVars, clearVars>>
stockVars == <<cpc, quantity, current_stock, result, acquired, entered,
               deletes, decremented, calls, reserved, initial_stock>>
rateVars  == <<rl_pc, current, verdict, this_n, ttl, window_n, window_age,
               expire_by, rate_calls, max_requests, window>>
capVars   == <<collection, cap_pc, pushed, clock, last_added>>
nodeVars  == <<topology, lookup_slot, lookup_result>>
\* the operations modelled on their own
operationVars == <<stockVars, rateVars, capVars, nodeVars>>
vars      == <<ownerVars, keyVars, runVars, hashVars, scriptVars,
               operationVars>>

----------------------------------------------------------------------------
(* Bytes and strings *)

LBRACE == 123   \* "{"
RBRACE == 125   \* "}"

S_category_colon == <<99, 97, 116, 101, 103, 111, 114, 121, 58>>  \* "category:"
S_colon_product_colon == <<58, 112, 114, 111, 100, 117, 99, 116, 58>>  \* ":product:"
S_colon_products == <<58, 112, 114, 111, 100, 117, 99, 116, 115>>  \* ":products"
S_product_NO_TAG_00 == <<112, 114, 111, 100, 117, 99, 116, 58, 78, 79, 45, 84, 65, 71, 45, 48, 48>>  \* "product:NO-TAG-00"
S_product_00123 == <<112, 114, 111, 100, 117, 99, 116, 58, 48, 48, 49, 50, 51>>  \* "product:00123"
S_electronics == <<101, 108, 101, 99, 116, 114, 111, 110, 105, 99, 115>>  \* "electronics"
S_books == <<98, 111, 111, 107, 115>>  \* "books"
S_clothing == <<99, 108, 111, 116, 104, 105, 110, 103>>  \* "clothing"

\* "P001" .. "P203": the letter P and three decimal digits
ProductId(n) == <<80, 48 + (n \div 100), 48 + ((n \div 10) % 10), 48 + (n % 10)>>

\* str(i) for one decimal digit
Digit(i) == <<48 + i>>

----------------------------------------------------------------------------
(* The hash slot of a key: CRC16 of the hash tag (or the whole key) mod 16384 *)

NumSlots == 16384
MaxSlot == 16383

\* bitwise exclusive or of two bytes
xor8(a, b) ==
    LET bit(w) == ((a \div w) + (b \div w)) % 2 IN
    bit(1) + 2 * bit(2) + 4 * bit(4) + 8 * bit(8) + 16 * bit(16)
        + 32 * bit(32) + 64 * bit(64) + 128 * bit(128)

\* bitwise exclusive or of two 16-bit words
xor16(a, b) == 256 * xor8(a \div 256, b \div 256) + xor8(a % 256, b % 256)

RECURSIVE crc16_shift(_, _)
\* n rounds of: shift left one bit, and xor with the polynomial 0x1021 when
\* the bit shifted out is 1 (16-bit register)
crc16_shift(crc, n) ==
    IF n = 0 THEN crc
    ELSE crc16_shift(IF crc >= 32768
                     THEN xor16((crc * 2) % 65536, 4129)
                     ELSE crc * 2,
                     n - 1)

\* The CRC table: entry i is the register after i is fed into an empty one.
crc16tab == [i \in 0..255 |-> crc16_shift(i * 256, 8)]

\* one byte into the register:
\* crc = ((crc << 8) & 0xffff) ^ crc16tab[((crc >> 8) ^ byte) & 0xff]
crc16_byte(crc, byte) ==
    xor16((crc * 256) % 65536, crc16tab[xor8(crc \div 256, byte)])

RECURSIVE crc16_from(_, _, _)
\* the loop over the bytes of the key from index i on; the register is
\* bound to its value after each byte, before the next byte is read
crc16_from(key, i, crc) ==
    IF i > Len(key) THEN crc
    ELSE CHOOSE out \in {crc16_from(key, i + 1, next) :
                             next \in {crc16_byte(crc, key[i])}} : TRUE

\* CRC16/XMODEM: polynomial 0x1021, initial value 0
crc16(key) == crc16_from(key, 1, 0)

\* key.find(byte, from): the first index >= from holding byte, 0 when none
\* (indices are 1-based; 0 plays the part of -1)
RECURSIVE find(_, _, _)
find(key, byte, from) ==
    IF from > Len(key) THEN 0
    ELSE IF key[from] = byte THEN from
    ELSE find(key, byte, from + 1)

\* The part of the key that is hashed: the text between the first "{" and
\* the first "}" after it when that text is not empty, else the whole key.
hashed_part(key) ==
    LET start == find(key, LBRACE, 1) IN
    IF start = 0 THEN key
    ELSE LET end == find(key, RBRACE, start + 1) IN
         IF end = 0 \/ end = start + 1 THEN key
         ELSE SubSeq(key, start + 1, end - 1)

\* A plausible bug: the hash tag is ignored and the whole key is hashed.
cluster_keyslot_whole_key(key) == crc16(key) % NumSlots

\* rc.cluster_keyslot(key)
cluster_keyslot(key) == crc16(hashed_part(key)) % NumSlots

----------------------------------------------------------------------------
(* The store: the commands of the cluster client the scripts use *)

NoValue == [type |-> "none"]
StringValue(v) == [type |-> "string", val |-> v]
HashValue(h) == [type |-> "hash", val |-> h]

EmptyStore == [k \in {} |-> NoValue]
EmptyHash == [f \in {} |-> ""]

value_at(st, key) == IF key \in DOMAIN st THEN st[key] ELSE NoValue

put(st, key, v) == [k \in DOMAIN st \cup {key} |-> IF k = key THEN v ELSE st[k]]

\* rc.delete(key)
delete(st, key) == [k \in DOMAIN st \ {key} |-> st[k]]

\* rc.set(key, value): overwrites whatever the key held
set(st, key, v) == put(st, key, StringValue(v))

\* A command on a key holding a value of another type is refused (WRONGTYPE).
wrong_type(st, key, type) == value_at(st, key).type \notin {"none", type}

hash_at(st, key) ==
    IF value_at(st, key).type = "hash" THEN value_at(st, key).val ELSE EmptyHash

\* A plausible bug: the write replaces the hash instead of setting fields in it.
hset_replacing(st, key, m) == put(st, key, HashValue(m))

\* rc.hset(key, mapping=m): sets the fields of m in the hash at key, creating
\* it when the key is absent; the other fields of the hash stay
hset(st, key, m) ==
    put(st, key,
        HashValue([f \in DOMAIN hash_at(st, key) \cup DOMAIN m |->
                       IF f \in DOMAIN m THEN m[f] ELSE hash_at(st, key)[f]]))

\* rc.hgetall(key): every field of the hash, the empty dict for an absent key
hgetall(st, key) == hash_at(st, key)

RunIdle ==
    /\ script = ""
    /\ pc = ""
    /\ exit = "running"
    /\ console = {}
    /\ issued = {}
    /\ store = EmptyStore

HashIdle ==
    /\ mapping = EmptyHash
    /\ prior = NoValue
    /\ product = EmptyHash

NoSlots == [c \in {} |-> 0]

DemoIdle ==
    /\ cat = 0
    /\ prod = 0
    /\ category_slots = NoSlots
    /\ marks = {}
    /\ all_slots = <<>>
    /\ all_same = <<>>
    /\ category_locations = NoSlots
    /\ slots_no_tag = <<>>
    /\ all_same_no_tag = <<>>
    /\ all_keys = {}
    /\ key_nodes = [m \in {"Master 1", "Master 2", "Master 3"} |-> {}]

ClearIdle ==
    /\ total_keys = 0
    /\ keys_by_node = NoSlots
    /\ deleted_count = 0
    /\ scan_left = {}
    /\ remaining_keys = {}
    /\ attempts = NoSlots
    /\ failed = {}

ScriptsIdle ==
    /\ rc = "none"
    /\ step = 0
    /\ DemoIdle
    /\ ClearIdle
    /\ others = FALSE

\* how many clients call reserve_stock, and how many calls they make in all
NumClients == 2
MaxCalls == 3
Clients == 1..NumClients

StockIdle ==
    /\ cpc = [c \in Clients |-> "idle"]
    /\ quantity = [c \in Clients |-> 0]
    /\ current_stock = [c \in Clients |-> 0]
    /\ result = [c \in Clients |-> "none"]
    /\ acquired = [c \in Clients |-> FALSE]
    /\ entered = [c \in Clients |-> FALSE]
    /\ deletes = [c \in Clients |-> 0]
    /\ decremented = [c \in Clients |-> FALSE]
    /\ calls = 0
    /\ reserved = 0
    /\ initial_stock = 0

NoTtl == -1
NoVerdict == [allowed |-> FALSE, text |-> "", n |-> 0, max |-> 0]

RateIdle ==
    /\ rl_pc = [c \in Clients |-> "idle"]
    /\ current = [c \in Clients |-> 0]
    /\ verdict = [c \in Clients |-> NoVerdict]
    /\ this_n = [c \in Clients |-> 0]
    /\ ttl = NoTtl
    /\ window_n = 0
    /\ window_age = 0
    /\ expire_by = {}
    /\ rate_calls = 0
    /\ max_requests = 0
    /\ window = 0

CapIdle ==
    /\ collection = ""
    /\ cap_pc = "idle"
    /\ pushed = 0
    /\ clock = 0
    /\ last_added = NoSlots

NoNode == [host |-> "", port |-> 0]

NodeIdle ==
    /\ topology = NoSlots
    /\ lookup_slot = -1
    /\ lookup_result = NoNode

OperationsIdle == StockIdle /\ RateIdle /\ CapIdle /\ NodeIdle

----------------------------------------------------------------------------
(* The slot-owner resolver *)

Master1 == [master |-> "Master 1 (redis-node-1)", ip |-> "172.28.0.2"]
Master2 == [master |-> "Master 2 (redis-node-2)", ip |-> "172.28.0.3"]
Master3 == [master |-> "Master 3 (redis-node-3)", ip |-> "172.28.0.4"]
Masters == {Master1, Master2, Master3}

\* A plausible bug: the first boundary is taken exclusive.
get_master_for_slot_exclusive(s) ==
    IF s < 5460 THEN Master1
    ELSE IF s <= 10922 THEN Master2
    ELSE Master3

\* def get_master_for_slot(slot)
get_master_for_slot(s) ==
    IF s <= 5460 THEN Master1
    ELSE IF s <= 10922 THEN Master2
    ELSE Master3

\* The slot table the distribution demo prints: master -> <<first, last, size>>
SlotTable ==
    [m \in {"Master 1", "Master 2", "Master 3"} |->
        CASE m = "Master 1" -> <<0, 5460, 5461>>
          [] m = "Master 2" -> <<5461, 10922, 5462>>
          [] m = "Master 3" -> <<10923, 16383, 5461>>]

\* A plausible bug: the last slot of a partition is charged to the next one.
master_key_shifted(s) ==
    IF s < 5460 THEN "Master 1"
    ELSE IF s < 10922 THEN "Master 2"
    ELSE "Master 3"

\* The inline boundary test of the scripts, naming the master only
master_key(s) ==
    IF s <= 5460 THEN "Master 1"
    ELSE IF s <= 10922 THEN "Master 2"
    ELSE "Master 3"

NoOwner == [master |-> "", ip |-> ""]

OwnerIdle ==
    /\ slot = -1
    /\ owner = NoOwner
    /\ nodes = [m \in DOMAIN SlotTable |-> 0]

\* Resolve the next slot of the slot space and charge it to its master.
ResolveSlot ==
    /\ slot < MaxSlot
    /\ slot' = slot + 1
    /\ owner' = get_master_for_slot(slot + 1)
    /\ nodes' = [nodes EXCEPT ![master_key(slot + 1)] = @ + 1]
    /\ UNCHANGED <<keyVars, runVars, hashVars, scriptVars, operationVars>>

KeysIdle ==
    /\ k1 = <<>>
    /\ k2 = <<>>
    /\ slot1 = -1
    /\ slot2 = -1

InitOwner ==
    OwnerIdle /\ KeysIdle /\ RunIdle /\ HashIdle /\ ScriptsIdle
        /\ OperationsIdle
NextOwner == ResolveSlot
SpecOwner == InitOwner /\ [][NextOwner]_vars

----------------------------------------------------------------------------
(* C1: get_master_for_slot is total over [0,16383]: every slot has exactly
   one owner, Master 1 for 0..5460, Master 2 for 5461..10922 and Master 3
   for 10923..16383, and the call never fails (it always returns one of the
   three masters). *)
C1_OwnerBySlot ==
    slot >= 0 =>
        /\ owner \in Masters
        /\ (0 <= slot /\ slot <= 5460) => owner = Master1
        /\ (5461 <= slot /\ slot <= 10922) => owner = Master2
        /\ (10923 <= slot /\ slot <= 16383) => owner = Master3

C1_Witness == slot = 5461 /\ owner = Master2

(* C7 as stated: the three ranges are pairwise disjoint, cover the slot
   space, and each owns the same number of slots. *)
RangesOf(s) == {m \in DOMAIN SlotTable : SlotTable[m][1] <= s /\ s <= SlotTable[m][2]}

C7_EqualPartitions ==
    /\ slot >= 0 => RangesOf(slot) = {master_key(slot)}
    /\ slot = MaxSlot =>
          /\ nodes["Master 1"] = nodes["Master 2"]
          /\ nodes["Master 2"] = nodes["Master 3"]

(* C7 amended: the three ranges are pairwise disjoint and cover the slot
   space (every slot lies in exactly one range, that of its master), and
   their sizes are 5461, 5462 and 5461: they differ by at most one. *)
C7_NearEqualPartitions ==
    /\ slot >= 0 =>
          /\ RangesOf(slot) = {master_key(slot)}
          /\ nodes["Master 1"] + nodes["Master 2"] + nodes["Master 3"] = slot + 1
    /\ slot = MaxSlot =>
          /\ nodes = [m \in DOMAIN SlotTable |-> SlotTable[m][3]]
          /\ nodes["Master 1"] = 5461
          /\ nodes["Master 2"] = 5462
          /\ nodes["Master 3"] = 5461
          /\ nodes["Master 1"] + nodes["Master 2"] + nodes["Master 3"] = NumSlots

C7_Witness == slot = MaxSlot /\ nodes["Master 2"] = nodes["Master 1"] + 1

----------------------------------------------------------------------------
(* Slot computation on arbitrary keys *)

MaxKeyLen == 4

\* The bytes keys are drawn from: "{", "}", "a"
KeyBytes == {LBRACE, RBRACE, 97}

RECURSIVE KeysOfLen(_)
KeysOfLen(n) ==
    IF n = 0 THEN {<<>>}
    ELSE {Append(k, b) : k \in KeysOfLen(n - 1), b \in KeyBytes}

Keys == UNION {KeysOfLen(n) : n \in 0..MaxKeyLen}

InitKeys ==
    /\ OwnerIdle
    /\ RunIdle
    /\ HashIdle
    /\ ScriptsIdle
    /\ OperationsIdle
    /\ k1 \in Keys
    /\ k2 \in Keys
    /\ slot1 = -1
    /\ slot2 = -1

\* slot = rc.cluster_keyslot(key), for each of the two keys
ComputeSlots ==
    /\ slot1 = -1
    /\ slot1' = cluster_keyslot(k1)
    /\ slot2' = cluster_keyslot(k2)
    /\ UNCHANGED <<k1, k2, ownerVars, runVars, hashVars, scriptVars,
                   operationVars>>

NextKeys == ComputeSlots
SpecKeys == InitKeys /\ [][NextKeys]_vars

\* The hash tags of a key, stated without reference to how the slot is
\* computed: the non-empty texts t such that "{" t "}" occurs in the key with
\* no "{" before it and no "}" inside t.  A key has at most one.
HashTags(key) ==
    {SubSeq(key, i + 1, j - 1) : <<i, j>> \in
        {p \in (1..Len(key)) \X (1..Len(key)) :
            /\ key[p[1]] = LBRACE
            /\ key[p[2]] = RBRACE
            /\ p[1] + 1 < p[2]
            /\ \A q \in 1..(p[1] - 1) : key[q] # LBRACE
            /\ \A q \in (p[1] + 1)..(p[2] - 1) : key[q] # RBRACE}}

(* C2: two keys that share an identical hash tag (the text between the
   braces) have equal slots, whatever the text outside the braces is. *)
C2_SameTagSameSlot ==
    (slot1 >= 0 /\ slot2 >= 0 /\ HashTags(k1) \cap HashTags(k2) # {})
        => slot1 = slot2

\* two different keys with the tag "a" and different text around it
C2_Witness ==
    /\ slot1 >= 0
    /\ k1 = <<LBRACE, 97, RBRACE, RBRACE>>
    /\ k2 = <<97, LBRACE, 97, RBRACE>>
    /\ slot1 = slot2

----------------------------------------------------------------------------
(* The scripts: start-up *)

Scripts == {"demo", "category_products_demo", "verify_hash_tags",
            "clear_redis", "cluster_distribution_demo", "real_world_example"}

\* A plausible bug: no script wraps the connection in try/except.
connection_handled_nowhere(s) == FALSE

\* Whether the script wraps RedisCluster(...) in try/except and returns.
connection_handled(s) ==
    s \in {"demo", "category_products_demo", "verify_hash_tags", "clear_redis"}

\* The store commands a script issues after connecting, for the scripts
\* whose body is a straight line of commands.
Body(s) ==
    CASE s = "demo" ->
           <<"cluster_info", "set", "get", "set", "hset", "hgetall",
             "delete", "rpush", "lrange", "delete", "sadd", "smembers",
             "delete", "zadd", "zrevrange", "setex", "ttl", "set", "incr",
             "get", "scan", "cluster_keyslot", "close">>
      [] s = "cluster_distribution_demo" ->
           <<"cluster_info", "set", "cluster_keyslot", "cluster_keyslot",
             "get", "get", "cluster_keyslot", "cluster_keyslot",
             "cluster_keyslot", "close">>
      [] s = "real_world_example" ->
           <<"hset", "setex", "get", "lpush", "ltrim", "hincrby", "zadd",
             "zremrangebyrank", "lrange", "hset", "expire", "hgetall",
             "hget", "set", "hget", "hincrby", "delete", "hget", "incr",
             "expire", "lpush", "ltrim", "lrange", "lpush", "ltrim",
             "incrby", "get", "zrevrange">>
      [] OTHER -> <<>>

\* Where each script goes once connected.
first_pc(s) ==
    CASE s = "category_products_demo" -> "cluster_info"
      [] s = "verify_hash_tags" -> "check_category"
      [] s = "clear_redis" -> "count"
      [] OTHER -> "body"

\* rc = RedisCluster(startup_nodes=..., password=..., decode_responses=True)
Connect ==
    /\ script \in Scripts /\ pc = "connect"
    /\ \E ok \in BOOLEAN :
          IF ok
          THEN /\ rc' = "connected"
               /\ console' = IF connection_handled(script)
                             THEN console \cup {<<"Connected successfully!">>}
                             ELSE console
               /\ pc' = first_pc(script)
               /\ cat' = 1
               /\ UNCHANGED exit
          ELSE /\ rc' = "failed"
               /\ pc' = "done"
               /\ UNCHANGED cat
               /\ IF connection_handled(script)
                  THEN /\ console' = console \cup {<<"Connection failed">>}
                       /\ exit' = "returned"
                  ELSE /\ exit' = "exception"
                       /\ UNCHANGED console
    /\ UNCHANGED <<script, issued, store, step, prod, category_slots, marks,
                   all_slots, all_same, category_locations, slots_no_tag,
                   all_same_no_tag, all_keys, key_nodes, clearVars,
                   ownerVars, keyVars, hashVars, operationVars>>

\* The next command of a straight-line script.
RunCommand ==
    /\ script \in Scripts /\ pc = "body"
    /\ step < Len(Body(script))
    /\ step' = step + 1
    /\ issued' = issued \cup {Body(script)[step + 1]}
    /\ IF step + 1 = Len(Body(script))
       THEN pc' = "done" /\ exit' = "returned"
       ELSE UNCHANGED <<pc, exit>>
    /\ UNCHANGED <<script, console, store, rc, demoVars, clearVars,
                   ownerVars, keyVars, hashVars, operationVars>>

----------------------------------------------------------------------------
(* category_products_demo.py and verify_hash_tags.py *)

Product(n, id, name, price, stock) ==
    [n |-> n, id |-> id, name |-> name, price |-> price, stock |-> stock]

\* categories = {...}: the prices and stocks as str() prints them
categories ==
    << [name |-> "electronics", bytes |-> S_electronics, title |-> "Electronics",
        products |-> << Product(1, "P001", "iPhone 15 Pro", "999.0", "50"),
                        Product(2, "P002", "MacBook Pro", "1999.0", "30"),
                        Product(3, "P003", "AirPods Pro", "249.0", "100"),
                        Product(4, "P004", "iPad Air", "599.0", "75") >>],
       [name |-> "books", bytes |-> S_books, title |-> "Books",
        products |-> << Product(101, "P101", "Redis Cluster Guide", "29.99", "150"),
                        Product(102, "P102", "Python Mastery", "39.99", "200"),
                        Product(103, "P103", "System Design", "49.99", "120") >>],
       [name |-> "clothing", bytes |-> S_clothing, title |-> "Clothing",
        products |-> << Product(201, "P201", "Cotton T-Shirt", "19.99", "500"),
                        Product(202, "P202", "Jeans", "79.99", "300"),
                        Product(203, "P203", "Sneakers", "129.99", "250") >>] >>

\* f"{{category:{category_name}}}"
category_key(c) == <<LBRACE>> \o S_category_colon \o c.bytes \o <<RBRACE>>

\* A plausible bug: the braces are left out of the product key.
product_key_untagged(c, p) ==
    S_category_colon \o c.bytes \o S_colon_product_colon \o ProductId(p.n)

\* f"{{category:{category_name}}}:product:{product['id']}"
product_key(c, p) == category_key(c) \o S_colon_product_colon \o ProductId(p.n)

\* f"{{category:{category_name}}}:products"
product_list_key(c) == category_key(c) \o S_colon_products

\* f"product:NO-TAG-00{i}"
no_tag_key(i) == S_product_NO_TAG_00 \o Digit(i)

\* str(len(products))
count_str(c) == IF Len(c.products) = 4 THEN "4" ELSE "3"

category_mapping(c) ==
    [name |-> c.title, product_count |-> count_str(c),
     description |-> "All " \o c.name \o " products"]

product_mapping(c, p) ==
    [id |-> p.id, name |-> p.name, price |-> p.price, stock |-> p.stock,
     category |-> c.name]

\* json.dumps(product_ids): the JSON text, kept as the list it denotes
product_ids(c) == [i \in 1..Len(c.products) |-> c.products[i].id]

\* A plausible bug: the flag only asks that some slot was computed.
all_same_of_nonempty(slots) == Cardinality({slots[i] : i \in 1..Len(slots)}) >= 1

\* len(set(slots)) == 1
all_same_of(slots) == Cardinality({slots[i] : i \in 1..Len(slots)}) = 1

\* the line printed for a key whose slot is compared with its category's
Mark(key, key_slot, against) ==
    [key |-> key, slot |-> key_slot, against |-> against,
     same |-> key_slot = against]

\* Store the category info and remember the slot of its key.
StoreCategory ==
    /\ script = "category_products_demo" /\ pc = "store_category"
    /\ LET c == categories[cat] IN
       /\ store' = hset(store, category_key(c), category_mapping(c))
       /\ category_slots' =
             [n \in DOMAIN category_slots \cup {c.name} |->
                 IF n = c.name THEN cluster_keyslot(category_key(c))
                 ELSE category_slots[n]]
    /\ issued' = issued \cup {"hset", "cluster_keyslot"}
    /\ prod' = 1
    /\ pc' = "store_product"
    /\ UNCHANGED <<script, exit, console, rc, step, cat, marks, all_slots,
                   all_same, category_locations, slots_no_tag,
                   all_same_no_tag, all_keys, key_nodes, clearVars,
                   ownerVars, keyVars, hashVars, operationVars>>

\* Store one product of the category and compare its slot with the
\* category's.
StoreProduct ==
    /\ script = "category_products_demo" /\ pc = "store_product"
    /\ LET c == categories[cat]
           p == c.products[prod]
       IN
       /\ store' = hset(store, product_key(c, p), product_mapping(c, p))
       /\ marks' = marks \cup {Mark(product_key(c, p),
                                    cluster_keyslot(product_key(c, p)),
                                    category_slots[c.name])}
       /\ IF prod < Len(c.products)
          THEN prod' = prod + 1 /\ UNCHANGED pc
          ELSE prod' = 0 /\ pc' = "store_list"
    /\ issued' = issued \cup {"hset", "cluster_keyslot"}
    /\ UNCHANGED <<script, exit, console, rc, step, cat, category_slots,
                   all_slots, all_same, category_locations, slots_no_tag,
                   all_same_no_tag, all_keys, key_nodes, clearVars,
                   ownerVars, keyVars, hashVars, operationVars>>

\* Store the product id list of the category and compare its slot.
StoreProductList ==
    /\ script = "category_products_demo" /\ pc = "store_list"
    /\ LET c == categories[cat] IN
       /\ store' = set(store, product_list_key(c), product_ids(c))
       /\ marks' = marks \cup {Mark(product_list_key(c),
                                    cluster_keyslot(product_list_key(c)),
                                    category_slots[c.name])}
    /\ issued' = issued \cup {"set", "cluster_keyslot"}
    /\ IF cat < Len(categories)
       THEN cat' = cat + 1 /\ pc' = "store_category"
       ELSE cat' = 1 /\ pc' = "verify"
    /\ UNCHANGED <<script, exit, console, rc, step, prod, category_slots,
                   all_slots, all_same, category_locations, slots_no_tag,
                   all_same_no_tag, all_keys, key_nodes, clearVars,
                   ownerVars, keyVars, hashVars, operationVars>>

\* Verification: the slots of every key of one category, and whether they
\* are all the same.
VerifyCategory ==
    /\ script = "category_products_demo" /\ pc = "verify"
    /\ LET c == categories[cat]
           slots == <<cluster_keyslot(category_key(c)),
                      cluster_keyslot(product_list_key(c))>>
                    \o [i \in 1..Len(c.products) |->
                           cluster_keyslot(product_key(c, c.products[i]))]
       IN
       /\ all_slots' = Append(all_slots, slots)
       /\ all_same' = Append(all_same, all_same_of(slots))
       /\ console' = console \cup
             {<<"Stored on", master_key(cluster_keyslot(category_key(c)))>>}
    /\ issued' = issued \cup {"cluster_keyslot"}
    /\ IF cat < Len(categories)
       THEN cat' = cat + 1 /\ UNCHANGED pc
       ELSE cat' = 0 /\ pc' = "query"
    /\ UNCHANGED <<script, exit, store, rc, step, prod, category_slots,
                   marks, category_locations, slots_no_tag, all_same_no_tag,
                   all_keys, key_nodes, clearVars, ownerVars, keyVars,
                   hashVars, operationVars>>

\* Query the products of the electronics category: reads only.
QueryCategory ==
    /\ script = "category_products_demo" /\ pc = "query"
    /\ issued' = issued \cup {"hgetall", "get"}
    /\ console' = console \cup
          {<<"Category Info", hgetall(store, category_key(categories[1]))>>,
           <<"Product IDs", value_at(store, product_list_key(categories[1])).val>>}
    /\ pc' = "no_tag"
    /\ UNCHANGED <<script, exit, store, rc, step, demoVars, clearVars,
                   ownerVars, keyVars, hashVars, operationVars>>

\* Comparison: three keys without a hash tag, their slots, and whether they
\* are all the same.
NoTag ==
    /\ script = "category_products_demo" /\ pc = "no_tag"
    /\ store' = set(set(set(store, no_tag_key(1), "Product without tag"),
                        no_tag_key(2), "Product without tag"),
                    no_tag_key(3), "Product without tag")
    /\ issued' = issued \cup {"set", "cluster_keyslot"}
    /\ LET slots == [i \in 1..3 |-> cluster_keyslot(no_tag_key(i))] IN
       /\ slots_no_tag' = slots
       /\ all_same_no_tag' = <<all_same_of(slots)>>
    /\ pc' = "summary"
    /\ UNCHANGED <<script, exit, console, rc, step, cat, prod,
                   category_slots, marks, all_slots, all_same,
                   category_locations, all_keys, key_nodes, clearVars,
                   ownerVars, keyVars, hashVars, operationVars>>

\* Summary: scan all keys, close.
Summary ==
    /\ script = "category_products_demo" /\ pc = "summary"
    /\ issued' = issued \cup {"scan", "close"}
    /\ all_keys' = DOMAIN store
    /\ pc' = "done"
    /\ exit' = "returned"
    /\ UNCHANGED <<script, console, store, rc, step, cat, prod,
                   category_slots, marks, all_slots, all_same,
                   category_locations, slots_no_tag, all_same_no_tag,
                   key_nodes, clearVars, ownerVars, keyVars, hashVars,
                   operationVars>>

\* category_products_demo.py: the cluster info printed after connecting
ClusterInfo ==
    /\ script = "category_products_demo" /\ pc = "cluster_info"
    /\ issued' = issued \cup {"cluster_info"}
    /\ pc' = "store_category"
    /\ UNCHANGED <<script, exit, console, store, rc, step, demoVars,
                   clearVars, ownerVars, keyVars, hashVars, operationVars>>

has_prefix(key, prefix) ==
    Len(key) >= Len(prefix) /\ SubSeq(key, 1, Len(prefix)) = prefix

\* master_name.split()[0] + " " + master_name.split()[1]
short_name(m) ==
    CASE m = Master1 -> "Master 1"
      [] m = Master2 -> "Master 2"
      [] m = Master3 -> "Master 3"

\* verify_hash_tags.py: one category: the slots and masters of its key and
\* of its product list, then of every product key found in the store.
CheckCategory ==
    /\ script = "verify_hash_tags" /\ pc = "check_category"
    /\ LET c == categories[cat]
           category_slot == cluster_keyslot(category_key(c))
           products_slot == cluster_keyslot(product_list_key(c))
           product_keys == {k \in DOMAIN store :
                              has_prefix(k, category_key(c) \o S_colon_product_colon)}
       IN
       /\ category_locations' =
             IF category_slot = products_slot
             THEN [n \in DOMAIN category_locations \cup {c.name} |->
                     IF n = c.name
                     THEN [slot |-> category_slot,
                           master |-> get_master_for_slot(category_slot).master,
                           ip |-> get_master_for_slot(category_slot).ip]
                     ELSE category_locations[n]]
             ELSE category_locations
       /\ marks' = marks
             \cup {Mark(product_list_key(c), products_slot, category_slot)}
             \cup {Mark(pk, cluster_keyslot(pk), category_slot) : pk \in product_keys}
    /\ issued' = issued \cup {"cluster_keyslot", "scan"}
    /\ IF cat < Len(categories)
       THEN cat' = cat + 1 /\ UNCHANGED pc
       ELSE cat' = 0 /\ pc' = "distribution"
    /\ UNCHANGED <<script, exit, console, store, rc, step, prod,
                   category_slots, all_slots, all_same, slots_no_tag,
                   all_same_no_tag, all_keys, key_nodes, clearVars,
                   ownerVars, keyVars, hashVars, operationVars>>

\* verify_hash_tags.py: scan all keys and charge each to its master.
KeyDistribution ==
    /\ script = "verify_hash_tags" /\ pc = "distribution"
    /\ issued' = issued \cup {"scan", "cluster_keyslot", "close"}
    /\ all_keys' = DOMAIN store
    /\ key_nodes' = [m \in DOMAIN key_nodes |->
                       {k \in DOMAIN store :
                          short_name(get_master_for_slot(cluster_keyslot(k))) = m}]
    /\ pc' = "done"
    /\ exit' = "returned"
    /\ UNCHANGED <<script, console, store, rc, step, cat, prod,
                   category_slots, marks, all_slots, all_same,
                   category_locations, slots_no_tag, all_same_no_tag,
                   clearVars, ownerVars, keyVars, hashVars, operationVars>>

----------------------------------------------------------------------------
(* clear_redis.py: clear_all_keys *)

S_hello == <<104, 101, 108, 108, 111>>  \* "hello"

RECURSIVE tally(_, _)
\* keys_by_node[node] = keys_by_node.get(node, 0) + 1, for every key scanned
tally(keys, counts) ==
    IF keys = {} THEN counts
    ELSE LET key == CHOOSE k \in keys : TRUE
             node == master_key(cluster_keyslot(key))
         IN tally(keys \ {key},
                  [n \in DOMAIN counts \cup {node} |->
                      IF n = node
                      THEN (IF n \in DOMAIN counts THEN counts[n] ELSE 0) + 1
                      ELSE counts[n]])

\* A plausible bug: a cluster holding a single key is taken for empty.
nothing_to_delete_below_two(total) == total <= 1

\* if total_keys == 0
nothing_to_delete(total) == total = 0

\* Count keys before deletion; return when there is none.
CountKeys ==
    /\ script = "clear_redis" /\ pc = "count"
    /\ issued' = issued \cup {"scan"}
                    \cup (IF DOMAIN store = {} THEN {} ELSE {"cluster_keyslot"})
                    \cup (IF nothing_to_delete(Cardinality(DOMAIN store))
                          THEN {"close"} ELSE {})
    /\ total_keys' = Cardinality(DOMAIN store)
    /\ keys_by_node' = tally(DOMAIN store, NoSlots)
    /\ IF nothing_to_delete(Cardinality(DOMAIN store))
       THEN /\ console' = console \cup {<<"No keys to delete">>}
            /\ pc' = "done"
            /\ exit' = "returned"
            /\ UNCHANGED scan_left
       ELSE /\ pc' = "delete"
            /\ scan_left' = DOMAIN store
            /\ UNCHANGED <<console, exit>>
    /\ UNCHANGED <<script, store, rc, step, demoVars, deleted_count,
                   remaining_keys, attempts, failed, others,
                   ownerVars, keyVars, hashVars, operationVars>>

\* A plausible bug: the count is incremented before the delete is known to
\* have succeeded.
count_after_delete_always(count, raised) == count + 1

\* deleted_count after one pass of the loop body
count_after_delete(count, raised) == IF raised THEN count ELSE count + 1

\* One pass of the deletion loop: try rc.delete(key), count it, or log the
\* exception and go on.
DeleteKey ==
    /\ script = "clear_redis" /\ pc = "delete"
    /\ \E key \in scan_left, raised \in BOOLEAN :
          /\ scan_left' = scan_left \ {key}
          /\ issued' = issued \cup {"scan", "delete"}
          /\ attempts' = [k \in DOMAIN attempts \cup {key} |->
                            IF k = key
                            THEN (IF k \in DOMAIN attempts THEN attempts[k] ELSE 0) + 1
                            ELSE attempts[k]]
          /\ deleted_count' = count_after_delete(deleted_count, raised)
          /\ IF raised
             THEN /\ console' = console \cup {<<"Error deleting", key>>}
                  /\ failed' = failed \cup {key}
                  /\ UNCHANGED store
             ELSE /\ store' = delete(store, key)
                  /\ console' = IF (deleted_count + 1) % 100 = 0
                                THEN console \cup {<<"Deleted keys...">>}
                                ELSE console
                  /\ UNCHANGED failed
    /\ UNCHANGED <<script, pc, exit, rc, step, demoVars, total_keys,
                   keys_by_node, remaining_keys, others,
                   ownerVars, keyVars, hashVars, operationVars>>

\* The scan is exhausted: verify the deletion, show the cluster info, close.
VerifyDeletion ==
    /\ script = "clear_redis" /\ pc = "delete"
    /\ scan_left = {}
    /\ issued' = issued \cup {"scan", "cluster_info", "close"}
    /\ remaining_keys' = DOMAIN store
    /\ console' = console \cup {<<"Deleted keys">>}
                     \cup (IF DOMAIN store = {}
                           THEN {<<"All keys successfully deleted!">>}
                           ELSE {<<"Warning: keys still remain">>})
    /\ pc' = "done"
    /\ exit' = "returned"
    /\ UNCHANGED <<script, store, rc, step, demoVars, total_keys,
                   keys_by_node, deleted_count, scan_left, attempts, failed,
                   others, ownerVars, keyVars, hashVars, operationVars>>

----------------------------------------------------------------------------
(* Writing a hash record and reading it back (demo.py Demo 3; add_product
   and get_product) *)

S_product_colon == <<112, 114, 111, 100, 117, 99, 116, 58>>  \* "product:"
S_1001 == <<49, 48, 48, 49>>  \* "1001"

\* f"product:{product_id}"
product_hash_key(product_id) == S_product_colon \o product_id

HashFields == {"name", "price", "stock"}
PriorFields == {"name", "stock", "views"}
FieldValues == {"Redis Cluster Guide", "150"}

\* the non-empty records over some of the fields
RecordsOver(fields) ==
    UNION {[fs -> FieldValues] : fs \in (SUBSET fields) \ {{}}}

InitHash ==
    /\ OwnerIdle
    /\ KeysIdle
    /\ ScriptsIdle
    /\ OperationsIdle
    /\ script = "hash"
    /\ pc = "hset"
    /\ exit = "running"
    /\ console = {}
    /\ issued = {}
    /\ mapping \in RecordsOver(HashFields)
    /\ prior \in {NoValue, StringValue("Product 1 Data")}
                    \cup {HashValue(h) : h \in RecordsOver(PriorFields)}
    /\ store = IF prior = NoValue THEN EmptyStore
               ELSE put(EmptyStore, product_hash_key(S_1001), prior)
    /\ product = EmptyHash

\* rc.hset("product:1001", mapping={...})
HsetMapping ==
    /\ script = "hash" /\ pc = "hset"
    /\ issued' = issued \cup {"hset"}
    /\ IF wrong_type(store, product_hash_key(S_1001), "hash")
       THEN /\ pc' = "raised"
            /\ exit' = "exception"
            /\ UNCHANGED <<store, console>>
       ELSE /\ store' = hset(store, product_hash_key(S_1001), mapping)
            /\ console' = console \cup {"HSET"}
            /\ pc' = "hgetall"
            /\ UNCHANGED exit
    /\ UNCHANGED <<script, ownerVars, keyVars, hashVars, scriptVars,
                   operationVars>>

\* product = rc.hgetall("product:1001")
Hgetall ==
    /\ script = "hash" /\ pc = "hgetall"
    /\ issued' = issued \cup {"hgetall"}
    /\ product' = hgetall(store, product_hash_key(S_1001))
    /\ console' = console \cup {"HGETALL"}
    /\ pc' = "done"
    /\ exit' = "returned"
    /\ UNCHANGED <<script, store, mapping, prior, ownerVars, keyVars, scriptVars,
                   operationVars>>

NextHash == HsetMapping \/ Hgetall
SpecHash == InitHash /\ [][NextHash]_vars

(* C5 as stated: writing a hash record with N fields and reading it back
   yields exactly the same N fields with the same values, for any prior
   state of the store. *)
C5_RoundTripExact == pc = "done" => product = mapping

(* C5 amended: on a key that is absent or holds a hash, the read returns the
   N written fields with the written values, together with the fields the
   hash already held and the write did not name, unchanged; so it returns
   exactly the N written fields when the key was absent or held no other
   field.  On a key holding a value of another type the write raises. *)
C5_RoundTripMerged ==
    /\ pc = "raised" <=> (prior.type = "string" /\ "hset" \in issued)
    /\ pc = "done" =>
          LET old == IF prior.type = "hash" THEN prior.val ELSE EmptyHash IN
          /\ DOMAIN product = DOMAIN mapping \cup DOMAIN old
          /\ \A f \in DOMAIN mapping : product[f] = mapping[f]
          /\ \A f \in DOMAIN old \ DOMAIN mapping : product[f] = old[f]
          /\ DOMAIN old \subseteq DOMAIN mapping => product = mapping

\* a prior hash with a field the write does not name: it is read back too
C5_Witness ==
    /\ pc = "done"
    /\ prior.type = "hash"
    /\ "views" \in DOMAIN prior.val
    /\ "views" \in DOMAIN product
    /\ product # mapping

----------------------------------------------------------------------------
(* The scripts, each run once against the store *)

RECURSIVE store_products(_, _, _)
store_products(st, c, i) ==
    IF i > Len(c.products) THEN st
    ELSE store_products(hset(st, product_key(c, c.products[i]),
                             product_mapping(c, c.products[i])),
                        c, i + 1)

RECURSIVE store_categories(_, _)
store_categories(st, n) ==
    IF n > Len(categories) THEN st
    ELSE LET c == categories[n] IN
         store_categories(
             set(store_products(hset(st, category_key(c), category_mapping(c)), c, 1),
                 product_list_key(c), product_ids(c)),
             n + 1)

\* The store a complete run of category_products_demo.py leaves behind.
PopulatedStore ==
    set(set(set(store_categories(EmptyStore, 1),
                no_tag_key(1), "Product without tag"),
            no_tag_key(2), "Product without tag"),
        no_tag_key(3), "Product without tag")

\* A few of the keys the scripts leave behind, for clear_redis.py to find.
ClearKeys == {S_hello, no_tag_key(1), product_list_key(categories[2])}

InitialStores(s) ==
    CASE s \in {"category_products_demo", "verify_hash_tags"} ->
           {EmptyStore, PopulatedStore}
      [] s = "clear_redis" ->
           {[k \in ks |-> StringValue("world")] : ks \in SUBSET ClearKeys}
      [] OTHER -> {EmptyStore}

InitScripts ==
    /\ OwnerIdle
    /\ KeysIdle
    /\ HashIdle
    /\ script \in Scripts
    /\ pc = "connect"
    /\ exit = "running"
    /\ console = {}
    /\ issued = {}
    /\ store \in InitialStores(script)
    /\ rc = "none"
    /\ step = 0
    /\ DemoIdle
    /\ ClearIdle
    /\ OperationsIdle
    /\ others \in (IF script = "clear_redis" THEN BOOLEAN ELSE {FALSE})

\* Another client of the cluster deletes or writes a key while clear_redis.py
\* runs.
OtherClient ==
    /\ others
    /\ script = "clear_redis" /\ pc \in {"count", "delete"}
    /\ \E key \in ClearKeys, write \in BOOLEAN :
          store' = IF write THEN set(store, key, "other") ELSE delete(store, key)
    /\ UNCHANGED <<script, pc, exit, console, issued, scriptVars,
                   ownerVars, keyVars, hashVars, operationVars>>

NextScripts ==
    \/ Connect
    \/ RunCommand
    \/ ClusterInfo
    \/ StoreCategory
    \/ StoreProduct
    \/ StoreProductList
    \/ VerifyCategory
    \/ QueryCategory
    \/ NoTag
    \/ Summary
    \/ CheckCategory
    \/ KeyDistribution
    \/ CountKeys
    \/ DeleteKey
    \/ VerifyDeletion
    \/ OtherClient

SpecScripts == InitScripts /\ [][NextScripts]_vars

\* A run of category_products_demo.py that connected ends with the store
\* that verify_hash_tags.py is started on.
DemoLeavesPopulatedStore ==
    (script = "category_products_demo" /\ pc = "done" /\ rc = "connected")
        => store = PopulatedStore

(* C3: the locality check reports pass exactly when all computed slots are
   equal, and it reports pass for every category the program builds: every
   product key and product list key is reported on the slot of its category
   key, and all_same is True for each category. *)
C3_LocalityCheckPasses ==
    /\ \A m \in marks :
          /\ m.slot = cluster_keyslot(m.key)
          /\ m.same = (m.slot = m.against)
          /\ m.same
    /\ Len(all_same) = Len(all_slots)
    /\ \A i \in 1..Len(all_same) :
          /\ Len(all_slots[i]) = 2 + Len(categories[i].products)
          /\ all_same[i] = (\A a, b \in 1..Len(all_slots[i]) :
                               all_slots[i][a] = all_slots[i][b])
          /\ all_same[i]
    /\ (script = "verify_hash_tags" /\ pc = "done" /\ rc = "connected")
          => DOMAIN category_locations = {"electronics", "books", "clothing"}

\* the demo has verified its three categories and compared all 13 keys
C3_Witness ==
    /\ script = "category_products_demo"
    /\ pc = "done"
    /\ Len(all_same) = 3
    /\ Cardinality(marks) = 13
    /\ all_slots[1] = <<11864, 11864, 11864, 11864, 11864, 11864>>

(* C6: the three keys without a hash tag are not required to share a slot:
   the comparison is completed and the script goes on whatever the slots
   are, and the flag printed is True exactly when the three slots are
   equal. *)
C6_NoTagComparison ==
    all_same_no_tag # <<>> =>
        /\ Len(slots_no_tag) = 3
        /\ \A i \in 1..3 : slots_no_tag[i] = cluster_keyslot(no_tag_key(i))
        /\ all_same_no_tag[1] = (/\ slots_no_tag[1] = slots_no_tag[2]
                                 /\ slots_no_tag[2] = slots_no_tag[3])
        /\ pc \in {"summary", "done"}
        /\ exit # "exception"

\* the three slots differ, the flag is False and the script has finished
C6_Witness ==
    /\ pc = "done"
    /\ exit = "returned"
    /\ slots_no_tag = <<6413, 10606, 14671>>
    /\ all_same_no_tag = <<FALSE>>

(* C8: in every script a connection failure at startup is reported to the
   console by the script and ends it early and normally: no store command
   is issued and no exception escapes. *)
C8_ConnectionFailureHandled ==
    rc = "failed" =>
        /\ <<"Connection failed">> \in console
        /\ exit = "returned"
        /\ issued = {}

(* C9: in clear_all_keys a delete that raises is caught, logged and not
   retried: the loop goes on to the remaining scanned keys, deleted_count
   counts exactly the deletes that did not raise, and the script is never
   aborted by the failure. *)
C9_DeleteFailureSkipped ==
    script = "clear_redis" =>
        /\ \A k \in DOMAIN attempts : attempts[k] = 1
        /\ failed \subseteq DOMAIN attempts
        /\ failed = {k \in ClearKeys : <<"Error deleting", k>> \in console}
        /\ deleted_count = Cardinality(DOMAIN attempts \ failed)
        /\ \A k \in failed : k \notin scan_left
        /\ failed # {} => exit # "exception"
        /\ (pc = "done" /\ rc = "connected") => scan_left = {}

\* three keys scanned, the delete of one raised, the other two were deleted
\* and counted, and the script finished
C9_Witness ==
    /\ script = "clear_redis"
    /\ pc = "done"
    /\ exit = "returned"
    /\ Cardinality(DOMAIN attempts) = 3
    /\ Cardinality(failed) = 1
    /\ deleted_count = 2

(* C15: clear_all_keys on an empty cluster returns after the count without
   issuing a delete; on a cluster that holds keys, when no delete fails and
   no other client writes, it deletes every key, deleted_count equals the
   total_keys counted before, and the verification scan finds no key. *)
C15_ClearsEverything ==
    (script = "clear_redis" /\ ~others /\ rc = "connected" /\ pc = "done") =>
        /\ exit = "returned"
        /\ total_keys = 0 =>
              /\ "delete" \notin issued
              /\ DOMAIN attempts = {}
              /\ <<"No keys to delete">> \in console
              /\ store = EmptyStore
        /\ (total_keys > 0 /\ failed = {}) =>
              /\ deleted_count = total_keys
              /\ Cardinality(DOMAIN attempts) = total_keys
              /\ remaining_keys = {}
              /\ store = EmptyStore
              /\ <<"All keys successfully deleted!">> \in console

\* three keys were counted, three deleted, none remains
C15_Witness ==
    /\ script = "clear_redis" /\ ~others /\ pc = "done"
    /\ total_keys = 3 /\ deleted_count = 3
    /\ failed = {}
    /\ remaining_keys = {}
    /\ DOMAIN keys_by_node = {"Master 1", "Master 2"}
    /\ keys_by_node["Master 2"] = 2

----------------------------------------------------------------------------
(* real_world_example.py: EcommerceRedis.check_stock and reserve_stock, called
   by several clients on the same product.  Every store command is atomic;
   the clients' commands interleave in any order, and the lock key, set with
   a time to live of 5 seconds, can expire at any moment while it exists. *)

MaxStock == 2
MaxQuantity == 2
Quantities == 0..MaxQuantity

S_lock_stock_colon == <<108, 111, 99, 107, 58, 115, 116, 111, 99, 107, 58>>
S_P001 == <<80, 48, 48, 49>>  \* "P001"

\* lock_key = f"lock:stock:{product_id}"
lock_key(product_id) == S_lock_stock_colon \o product_id

\* What a hash field holds, and what hget returns: the decimal text of an
\* integer, the empty text, some other text, or None for a missing field.
Str(n) == [text |-> "int", n |-> n]
EmptyText == [text |-> "empty", n |-> 0]
OtherText == [text |-> "other", n |-> 0]
None == [text |-> "none", n |-> 0]

\* rc.hget(key, field)
hget(st, key, field) ==
    IF field \in DOMAIN hash_at(st, key) THEN hash_at(st, key)[field] ELSE None

\* rc.hincrby(key, field, amount) is refused on a key of another type and on
\* a field whose text is not an integer
hincrby_refused(st, key, field) ==
    \/ wrong_type(st, key, "hash")
    \/ hget(st, key, field).text \in {"empty", "other"}

\* rc.hincrby(key, field, amount): a missing field counts as 0
hincrby(st, key, field, amount) ==
    hset(st, key, [f \in {field} |-> Str(hget(st, key, field).n + amount)])

\* int(stock) raises ValueError on text that is no integer
int_raises(stock) == stock.text = "other"

\* int(stock) if stock else 0
int_or_zero(stock) == IF stock.text \in {"none", "empty"} THEN 0 ELSE stock.n

\* check_stock raises when hget is refused or int() raises
check_stock_raises(st, product_id) ==
    \/ wrong_type(st, product_hash_key(product_id), "hash")
    \/ int_raises(hget(st, product_hash_key(product_id), "stock"))

check_stock(st, product_id) ==
    int_or_zero(hget(st, product_hash_key(product_id), "stock"))

\* What product:P001 can hold when the calls start.
StockStores ==
    {EmptyStore,
     set(EmptyStore, product_hash_key(S_P001), "not a hash"),
     hset(EmptyStore, product_hash_key(S_P001), [f \in {"name"} |-> "iPhone"])}
    \cup {hset(EmptyStore, product_hash_key(S_P001), [f \in {"stock"} |-> v]) :
            v \in {Str(n) : n \in 0..MaxStock} \cup {EmptyText, OtherText}}

InitStock ==
    /\ OwnerIdle
    /\ KeysIdle
    /\ HashIdle
    /\ ScriptsIdle
    /\ script = "real_world_example"
    /\ pc = "inventory"
    /\ exit = "running"
    /\ console = {}
    /\ issued = {}
    /\ RateIdle
    /\ CapIdle
    /\ NodeIdle
    /\ store \in StockStores
    /\ cpc = [c \in Clients |-> "idle"]
    /\ quantity = [c \in Clients |-> 0]
    /\ current_stock = [c \in Clients |-> 0]
    /\ result = [c \in Clients |-> "none"]
    /\ acquired = [c \in Clients |-> FALSE]
    /\ entered = [c \in Clients |-> FALSE]
    /\ deletes = [c \in Clients |-> 0]
    /\ decremented = [c \in Clients |-> FALSE]
    /\ calls = 0
    /\ reserved = 0
    /\ initial_stock = IF check_stock_raises(store, S_P001)
                       THEN 0 ELSE check_stock(store, S_P001)

stockRest == <<script, pc, exit, console, issued, ownerVars, keyVars,
               hashVars, scriptVars, rateVars, capVars, nodeVars>>

\* store.reserve_stock("P001", q) is called
Call(c) ==
    /\ cpc[c] \in {"idle", "returned"}
    /\ calls < MaxCalls
    /\ \E q \in Quantities : quantity' = [quantity EXCEPT ![c] = q]
    /\ cpc' = [cpc EXCEPT ![c] = "set"]
    /\ calls' = calls + 1
    /\ current_stock' = [current_stock EXCEPT ![c] = 0]
    /\ result' = [result EXCEPT ![c] = "none"]
    /\ acquired' = [acquired EXCEPT ![c] = FALSE]
    /\ entered' = [entered EXCEPT ![c] = FALSE]
    /\ deletes' = [deletes EXCEPT ![c] = 0]
    /\ decremented' = [decremented EXCEPT ![c] = FALSE]
    /\ UNCHANGED <<store, reserved, initial_stock, stockRest>>

\* if self.rc.set(lock_key, "locked", nx=True, ex=5): ... return False
Acquire(c) ==
    /\ cpc[c] = "set"
    /\ IF lock_key(S_P001) \notin DOMAIN store
       THEN /\ store' = set(store, lock_key(S_P001), "locked")
            /\ acquired' = [acquired EXCEPT ![c] = TRUE]
            /\ cpc' = [cpc EXCEPT ![c] = "try"]
            /\ UNCHANGED result
       ELSE /\ cpc' = [cpc EXCEPT ![c] = "returned"]
            /\ result' = [result EXCEPT ![c] = "False"]
            /\ UNCHANGED <<store, acquired>>
    /\ UNCHANGED <<quantity, current_stock, entered, deletes, decremented,
                   calls, reserved, initial_stock, stockRest>>

\* current_stock = self.check_stock(product_id)
CheckStock(c) ==
    /\ cpc[c] = "try"
    /\ entered' = [entered EXCEPT ![c] = TRUE]
    /\ IF check_stock_raises(store, S_P001)
       THEN /\ result' = [result EXCEPT ![c] = "exception"]
            /\ cpc' = [cpc EXCEPT ![c] = "finally"]
            /\ UNCHANGED current_stock
       ELSE /\ current_stock' =
                  [current_stock EXCEPT ![c] = check_stock(store, S_P001)]
            /\ cpc' = [cpc EXCEPT ![c] = "checked"]
            /\ UNCHANGED result
    /\ UNCHANGED <<store, quantity, acquired, deletes, decremented, calls,
                   reserved, initial_stock, stockRest>>

\* A plausible bug: the last units cannot be reserved.
enough_stock_strict(stock, q) == stock > q

\* if current_stock >= quantity
enough_stock(stock, q) == stock >= q

\* if current_stock >= quantity: hincrby(..., -quantity); return True
\* return False
Reserve(c) ==
    /\ cpc[c] = "checked"
    /\ cpc' = [cpc EXCEPT ![c] = "finally"]
    /\ IF enough_stock(current_stock[c], quantity[c])
       THEN IF hincrby_refused(store, product_hash_key(S_P001), "stock")
            THEN /\ result' = [result EXCEPT ![c] = "exception"]
                 /\ UNCHANGED <<store, reserved, decremented>>
            ELSE /\ store' = hincrby(store, product_hash_key(S_P001), "stock",
                                     0 - quantity[c])
                 /\ decremented' = [decremented EXCEPT ![c] = TRUE]
                 /\ result' = [result EXCEPT ![c] = "True"]
                 /\ reserved' = reserved + quantity[c]
       ELSE /\ result' = [result EXCEPT ![c] = "False"]
            /\ UNCHANGED <<store, reserved, decremented>>
    /\ UNCHANGED <<quantity, current_stock, acquired, entered, deletes, calls,
                   initial_stock, stockRest>>

\* A plausible bug: the delete follows the try block instead of sitting in a
\* finally clause, so an exception skips it.
releases_unless_raised(outcome) == outcome # "exception"

\* finally: the delete runs whatever way the try block was left
releases(outcome) == TRUE

\* finally: self.rc.delete(lock_key); then the return or the exception
Release(c) ==
    /\ cpc[c] = "finally"
    /\ cpc' = [cpc EXCEPT ![c] = "returned"]
    /\ IF releases(result[c])
       THEN /\ store' = delete(store, lock_key(S_P001))
            /\ deletes' = [deletes EXCEPT ![c] = @ + 1]
       ELSE UNCHANGED <<store, deletes>>
    /\ UNCHANGED <<quantity, current_stock, result, acquired, entered,
                   decremented, calls, reserved, initial_stock, stockRest>>

\* ex=5: the lock key expires
Expire ==
    /\ lock_key(S_P001) \in DOMAIN store
    /\ store' = delete(store, lock_key(S_P001))
    /\ UNCHANGED <<cpc, quantity, current_stock, result, acquired, entered,
                   deletes, decremented, calls, reserved, initial_stock,
                   stockRest>>

NextStock ==
    \/ \E c \in Clients : Call(c)
    \/ \E c \in Clients : Acquire(c)
    \/ \E c \in Clients : CheckStock(c)
    \/ \E c \in Clients : Reserve(c)
    \/ \E c \in Clients : Release(c)
    \/ Expire

SpecStock == InitStock /\ [][NextStock]_vars

\* the call of client c is inside the critical section
in_critical_section(c) == cpc[c] \in {"try", "checked", "finally"}

(* C10: reserve_stock acquires the lock key with an expiry, runs the critical
   section and releases unconditionally: a call that acquired the lock key
   issues exactly one delete of it before it ends, whether it decremented
   the stock, found too little stock or an exception was raised inside; a
   call that did not acquire it never enters the critical section, never
   deletes the lock key and returns False. *)
C10_LockReleasedOnEveryPath ==
    \A c \in Clients :
        /\ (cpc[c] = "returned" /\ acquired[c]) =>
               /\ deletes[c] = 1
               /\ entered[c]
               /\ result[c] \in {"True", "False", "exception"}
        /\ (in_critical_section(c) \/ entered[c] \/ deletes[c] > 0)
               => acquired[c]
        /\ (cpc[c] = "returned" /\ ~acquired[c]) => result[c] = "False"
        /\ (acquired[c] /\ cpc[c] # "returned") =>
               (in_critical_section(c) /\ deletes[c] = 0)

\* one call acquired the lock, an exception was raised inside and the lock
\* key was deleted all the same; another call found the lock held and
\* returned False without a delete
C10_Witness ==
    \E c, d \in Clients :
        /\ c # d
        /\ cpc[c] = "returned" /\ acquired[c] /\ result[c] = "exception"
        /\ deletes[c] = 1
        /\ cpc[d] = "returned" /\ ~acquired[d] /\ deletes[d] = 0

\* the stock of the product as check_stock reads it now
stock_now == check_stock(store, S_P001)

(* C11: reserve_stock prevents overselling: with any number of clients in any
   interleaving, the lock expiring while its holder is still in the critical
   section included, the stock never becomes negative and the quantities of
   the calls that returned True never add up to more than the initial
   stock. *)
C11_NoOverselling ==
    /\ ~check_stock_raises(store, S_P001) => stock_now >= 0
    /\ reserved <= initial_stock

(* C12: reserve_stock returns True if and only if it decremented the stock by
   the requested quantity; it returns False, and leaves the stock as it is,
   when the lock is held or when the stock it read (0 for a missing product
   or a missing stock field) is less than the requested quantity.  The stock
   is therefore the initial stock less the quantities of the calls that
   returned True. *)
C12_TrueIffDecremented ==
    /\ \A c \in Clients :
          /\ decremented[c] <=> result[c] = "True"
          /\ result[c] = "False" =>
                (~acquired[c] \/ current_stock[c] < quantity[c])
          /\ (cpc[c] = "returned" /\ ~acquired[c]) => result[c] = "False"
          /\ (cpc[c] \in {"finally", "returned"} /\ acquired[c]
                /\ result[c] # "exception"
                /\ current_stock[c] < quantity[c]) => result[c] = "False"
    /\ ~check_stock_raises(store, S_P001) =>
          stock_now = initial_stock - reserved

\* one call took the whole stock of 2 and returned True; a later call read 0,
\* asked for 1 and returned False; the stock is 0
C12_Witness ==
    \E c, d \in Clients :
        /\ c # d
        /\ cpc[c] = "returned" /\ result[c] = "True" /\ quantity[c] = 2
        /\ cpc[d] = "returned" /\ result[d] = "False" /\ acquired[d]
        /\ current_stock[d] = 0 /\ quantity[d] = 1
        /\ initial_stock = 2
        /\ hget(store, product_hash_key(S_P001), "stock") = Str(0)

(* C17: mutual exclusion of the stock lock: at most one call of reserve_stock
   is inside the critical section of a product at a time, in any
   interleaving and with the lock expiring after 5 seconds. *)
C17_MutualExclusion ==
    \A c, d \in Clients :
        (in_critical_section(c) /\ in_critical_section(d)) => c = d

----------------------------------------------------------------------------
(* real_world_example.py: EcommerceRedis.check_rate_limit, called by several
   clients for the same IP address.  incr and expire are two commands; time
   passes in seconds between any two commands, and the counter key is
   removed by the store when its time to live runs out. *)

MaxLimit == 2
MaxWindow == 2
MaxRateCalls == 4

S_rate_limit_colon == <<114, 97, 116, 101, 95, 108, 105, 109, 105, 116, 58>>
S_ip == <<49, 57, 50, 46, 49, 54, 56, 46, 49, 46, 49, 48, 48>>

\* key = f"rate_limit:{ip_address}"
rate_key(ip_address) == S_rate_limit_colon \o ip_address

\* the integer a string key holds as decimal text, 0 for an absent key
counter_at(st, key) ==
    IF value_at(st, key).type = "string" THEN value_at(st, key).val.n ELSE 0

\* rc.incr(key): the store after it; the command returns the new value
incr(st, key) == set(st, key, Str(counter_at(st, key) + 1))

InitRate ==
    /\ OwnerIdle
    /\ KeysIdle
    /\ HashIdle
    /\ ScriptsIdle
    /\ StockIdle
    /\ CapIdle
    /\ NodeIdle
    /\ script = "real_world_example"
    /\ pc = "rate_limit"
    /\ exit = "running"
    /\ console = {}
    /\ issued = {}
    /\ store = EmptyStore
    /\ rl_pc = [c \in Clients |-> "idle"]
    /\ current = [c \in Clients |-> 0]
    /\ verdict = [c \in Clients |-> NoVerdict]
    /\ this_n = [c \in Clients |-> 0]
    /\ ttl = NoTtl
    /\ window_n = 0
    /\ window_age = 0
    /\ expire_by = {}
    /\ rate_calls = 0
    /\ max_requests \in 0..MaxLimit
    /\ window \in 1..MaxWindow

rateRest == <<script, pc, exit, console, issued, ownerVars, keyVars,
              hashVars, scriptVars, stockVars, capVars, nodeVars>>

\* current = self.rc.incr(key)
Incr(c) ==
    /\ rl_pc[c] \in {"idle", "returned"}
    /\ rate_calls < MaxRateCalls
    /\ rate_calls' = rate_calls + 1
    /\ store' = incr(store, rate_key(S_ip))
    /\ current' = [current EXCEPT ![c] = counter_at(store', rate_key(S_ip))]
    /\ window_n' = window_n + 1
    /\ this_n' = [this_n EXCEPT ![c] = window_n + 1]
    /\ verdict' = [verdict EXCEPT ![c] = NoVerdict]
    /\ rl_pc' = [rl_pc EXCEPT ![c] = "incremented"]
    /\ UNCHANGED <<ttl, window_age, expire_by, max_requests, window, rateRest>>

\* A plausible bug: the request that reaches the limit is rejected already.
exceeded_at_limit(n, max) == n >= max

\* if current > max_requests
exceeded(n, max) == n > max

\* return False, f"Rate limit exceeded: {current}/{max_requests}"
\* return True, f"OK: {current}/{max_requests}"
rate_verdict(n, max) ==
    IF exceeded(n, max)
    THEN [allowed |-> FALSE, text |-> "Rate limit exceeded", n |-> n, max |-> max]
    ELSE [allowed |-> TRUE, text |-> "OK", n |-> n, max |-> max]

\* if current == 1: self.rc.expire(key, window); then the comparison and
\* the return
ExpireAndReturn(c) ==
    /\ rl_pc[c] = "incremented"
    /\ IF current[c] = 1 /\ rate_key(S_ip) \in DOMAIN store
       THEN /\ ttl' = window
            /\ window_age' = 0
            /\ expire_by' = expire_by \cup {this_n[c]}
       ELSE UNCHANGED <<ttl, window_age, expire_by>>
    /\ verdict' = [verdict EXCEPT ![c] = rate_verdict(current[c], max_requests)]
    /\ rl_pc' = [rl_pc EXCEPT ![c] = "returned"]
    /\ UNCHANGED <<store, current, this_n, window_n, rate_calls, max_requests,
                   window, rateRest>>

\* One second passes; a counter whose time to live runs out is removed, and
\* the next request starts a new window.
Tick ==
    /\ ttl > 0
    /\ IF ttl = 1
       THEN /\ store' = delete(store, rate_key(S_ip))
            /\ ttl' = NoTtl
            /\ window_n' = 0
            /\ window_age' = 0
            /\ expire_by' = {}
       ELSE /\ ttl' = ttl - 1
            /\ window_age' = window_age + 1
            /\ UNCHANGED <<store, window_n, expire_by>>
    /\ UNCHANGED <<rl_pc, current, verdict, this_n, rate_calls, max_requests,
                   window, rateRest>>

NextRate ==
    \/ \E c \in Clients : Incr(c)
    \/ \E c \in Clients : ExpireAndReturn(c)
    \/ Tick

SpecRate == InitRate /\ [][NextRate]_vars

(* C13: check_rate_limit allows the n-th request of a window exactly when
   n <= max_requests, returning (True, 'OK: n/max') or (False, 'Rate limit
   exceeded: n/max'); the expiry of the window is set only by the request
   that created the counter (n = 1) and is not extended by later requests;
   rejected requests increment the counter too. *)
C13_RateLimit ==
    /\ \A c \in Clients :
          rl_pc[c] = "returned" =>
             /\ verdict[c].allowed <=> this_n[c] <= max_requests
             /\ verdict[c].n = this_n[c]
             /\ verdict[c].max = max_requests
             /\ verdict[c].text =
                   (IF this_n[c] <= max_requests
                    THEN "OK" ELSE "Rate limit exceeded")
    /\ expire_by \subseteq {1}
    /\ ttl # NoTtl => (expire_by = {1} /\ ttl + window_age = window)
    /\ counter_at(store, rate_key(S_ip)) = window_n
    /\ window_n > 0 <=> rate_key(S_ip) \in DOMAIN store

\* the third request of a window with a limit of 2 was rejected and counted,
\* while the second was allowed; a second of the window has passed and the
\* expiry still counts from the first request
C13_Witness ==
    \E c, d \in Clients :
        /\ max_requests = 2 /\ window = 2
        /\ rl_pc[c] = "returned" /\ this_n[c] = 3 /\ ~verdict[c].allowed
        /\ rl_pc[d] = "returned" /\ this_n[d] = 2 /\ verdict[d].allowed
        /\ counter_at(store, rate_key(S_ip)) = 3
        /\ ttl = 1 /\ window_age = 1

----------------------------------------------------------------------------
(* real_world_example.py: the capped collections.  track_product_view,
   add_notification and track_event push on a list and trim it;
   add_to_trending adds to a sorted set scored by time.time() and removes
   the lowest ranks.  The add and the trim are two commands. *)

\* "Keep last 50 views", "Keep last 100", "Keep last 10k events", "Keep only
\* last 100 trending products"
ViewsCap == 50
NotificationsCap == 100
EventsCap == 10000
TrendingCap == 100
\* the last argument of ltrim and of zremrangebyrank in the four operations
ViewsStop == 49
NotificationsStop == 99
EventsStop == 9999
TrendingStop == 0 - 101
\* how many entries a run adds beyond the cap
MaxOver == 2

S_views_U12345 == <<118, 105, 101, 119, 115, 58, 85, 49, 50, 51, 52, 53>>
S_notifications_U12345 ==
    <<110, 111, 116, 105, 102, 105, 99, 97, 116, 105, 111, 110, 115, 58, 85, 49, 50, 51, 52, 53>>
S_analytics_events ==
    <<97, 110, 97, 108, 121, 116, 105, 99, 115, 58, 101, 118, 101, 110, 116, 115>>
S_trending_products ==
    <<116, 114, 101, 110, 100, 105, 110, 103, 58, 112, 114, 111, 100, 117, 99, 116, 115>>

Collections == {"views", "notifications", "analytics", "trending"}

collection_key(coll) ==
    CASE coll = "views" -> S_views_U12345
      [] coll = "notifications" -> S_notifications_U12345
      [] coll = "analytics" -> S_analytics_events
      [] OTHER -> S_trending_products

\* how many entries the trim of a collection keeps
cap_of(coll) ==
    CASE coll = "views" -> ViewsCap
      [] coll = "notifications" -> NotificationsCap
      [] coll = "analytics" -> EventsCap
      [] OTHER -> TrendingCap

ListValue(l) == [type |-> "list", val |-> l]
ZsetValue(z) == [type |-> "zset", val |-> z]

list_at(st, key) ==
    IF value_at(st, key).type = "list" THEN value_at(st, key).val ELSE <<>>

zset_at(st, key) ==
    IF value_at(st, key).type = "zset" THEN value_at(st, key).val ELSE NoSlots

\* rc.lpush(key, x): x becomes the head of the list
lpush(st, key, x) == put(st, key, ListValue(<<x>> \o list_at(st, key)))

\* an index of a command counted from the end when negative
from_end(i, n) == IF i < 0 THEN n + i ELSE i

\* rc.ltrim(key, start, stop): keeps the entries at the 0-based indices
\* start..stop, both included; an empty list is no key
ltrim(st, key, start, stop) ==
    LET l == list_at(st, key)
        first == IF from_end(start, Len(l)) < 0 THEN 0
                 ELSE from_end(start, Len(l))
        last == IF from_end(stop, Len(l)) >= Len(l) THEN Len(l) - 1
                ELSE from_end(stop, Len(l))
    IN IF first > last THEN delete(st, key)
       ELSE put(st, key, ListValue(SubSeq(l, first + 1, last + 1)))

\* rc.lrange(key, 0, -1)
lrange_all(st, key) == list_at(st, key)

\* rc.zadd(key, {member: score}): adds the member or replaces its score
zadd(st, key, member, score) ==
    put(st, key,
        ZsetValue([x \in DOMAIN zset_at(st, key) \cup {member} |->
                      IF x = member THEN score ELSE zset_at(st, key)[x]]))

\* the 0-based rank of a member: by score, then by member
rank(z, member) ==
    Cardinality({x \in DOMAIN z :
                    \/ z[x] < z[member]
                    \/ (z[x] = z[member] /\ x < member)})

\* rc.zremrangebyrank(key, start, stop): removes the members whose rank is
\* in start..stop
zremrangebyrank(st, key, start, stop) ==
    LET z == zset_at(st, key)
        n == Cardinality(DOMAIN z)
        first == IF from_end(start, n) < 0 THEN 0 ELSE from_end(start, n)
        last == from_end(stop, n)
        kept == {x \in DOMAIN z : rank(z, x) < first \/ rank(z, x) > last}
    IN IF kept = {} THEN delete(st, key)
       ELSE put(st, key, ZsetValue([x \in kept |-> z[x]]))

\* A plausible bug: the number of entries to keep is passed as the stop index.
trim_stop_as_count(coll) == IF coll = "trending" THEN 0 - cap_of(coll) ELSE cap_of(coll)

\* the stop index the operation passes to the trim
trim_stop(coll) ==
    CASE coll = "views" -> ViewsStop
      [] coll = "notifications" -> NotificationsStop
      [] coll = "analytics" -> EventsStop
      [] OTHER -> TrendingStop

InitCapped ==
    /\ OwnerIdle
    /\ KeysIdle
    /\ HashIdle
    /\ ScriptsIdle
    /\ StockIdle
    /\ RateIdle
    /\ NodeIdle
    /\ script = "real_world_example"
    /\ pc = "collections"
    /\ exit = "running"
    /\ console = {}
    /\ issued = {}
    /\ store = EmptyStore
    /\ collection \in Collections
    /\ cap_pc = "idle"
    /\ pushed = 0
    /\ clock = 0
    /\ last_added = NoSlots

capRest == <<script, pc, exit, console, issued, ownerVars, keyVars,
             hashVars, scriptVars, stockVars, rateVars, nodeVars>>

\* self.rc.lpush(key, entry) in track_product_view, add_notification and
\* track_event: the entry is named by its number
Push ==
    /\ collection \in {"views", "notifications", "analytics"}
    /\ cap_pc = "idle"
    /\ pushed < cap_of(collection) + MaxOver
    /\ store' = lpush(store, collection_key(collection), pushed + 1)
    /\ pushed' = pushed + 1
    /\ cap_pc' = "trim"
    /\ UNCHANGED <<collection, clock, last_added, capRest>>

\* self.rc.ltrim(key, 0, stop)
Trim ==
    /\ collection \in {"views", "notifications", "analytics"}
    /\ cap_pc = "trim"
    /\ store' = ltrim(store, collection_key(collection), 0,
                      trim_stop(collection))
    /\ cap_pc' = "idle"
    /\ UNCHANGED <<collection, pushed, clock, last_added, capRest>>

\* self.rc.zadd("trending:products", {product_id: time.time()}): a product
\* not added before or, once in a run, the first product again; the clock
\* has advanced
AddTrending ==
    /\ collection = "trending"
    /\ cap_pc = "idle"
    /\ \E product_id \in {Cardinality(DOMAIN last_added) + 1} \cup
                      {p \in {1} : /\ p \in DOMAIN last_added
                                   /\ pushed = Cardinality(DOMAIN last_added)} :
          /\ product_id <= cap_of(collection) + MaxOver
          /\ store' = zadd(store, collection_key(collection), product_id,
                           clock + 1)
          /\ last_added' = [p \in DOMAIN last_added \cup {product_id} |->
                               IF p = product_id THEN clock + 1
                               ELSE last_added[p]]
    /\ clock' = clock + 1
    /\ pushed' = pushed + 1
    /\ cap_pc' = "trim"
    /\ UNCHANGED <<collection, capRest>>

\* self.rc.zremrangebyrank("trending:products", 0, -101)
TrimTrending ==
    /\ collection = "trending"
    /\ cap_pc = "trim"
    /\ store' = zremrangebyrank(store, collection_key(collection), 0,
                                trim_stop(collection))
    /\ cap_pc' = "idle"
    /\ UNCHANGED <<collection, pushed, clock, last_added, capRest>>

NextCapped ==
    \/ Push
    \/ Trim
    \/ AddTrending
    \/ TrimTrending

SpecCapped == InitCapped /\ [][NextCapped]_vars

\* the smaller of two numbers
min(a, b) == IF a < b THEN a ELSE b

\* the products added later than p
added_after(p) == {q \in DOMAIN last_added : last_added[q] > last_added[p]}

(* C14: after any sequence of completed calls a capped collection holds only
   the most recent entries, newest first: at most 50 views, 100
   notifications, 10000 events and 100 trending products, and the entries
   kept are exactly the ones added last. *)
C14_CappedNewestFirst ==
    cap_pc = "idle" =>
        IF collection \in {"views", "notifications", "analytics"}
        THEN LET l == lrange_all(store, collection_key(collection)) IN
             /\ Len(l) = min(pushed, cap_of(collection))
             /\ \A i \in 1..Len(l) : l[i] = pushed + 1 - i
        ELSE LET z == zset_at(store, collection_key(collection)) IN
             /\ Cardinality(DOMAIN z) =
                   min(Cardinality(DOMAIN last_added), cap_of(collection))
             /\ DOMAIN z = {p \in DOMAIN last_added :
                               Cardinality(added_after(p)) < cap_of(collection)}
             /\ \A p \in DOMAIN z : z[p] = last_added[p]

\* 102 products were added to the trending set and the first one was added
\* once more before it fell out: it is kept, the second and third are gone
C14_Witness ==
    /\ collection = "trending"
    /\ cap_pc = "idle"
    /\ Cardinality(DOMAIN last_added) = 102
    /\ pushed = 103
    /\ DOMAIN zset_at(store, S_trending_products) = {1} \cup 4..102

----------------------------------------------------------------------------
(* cluster_distribution_demo.py: get_node_for_key, on what rc.cluster_nodes()
   returns: per node its host and port, the id of its master (None for a
   master) and the slot ranges it owns. *)

NoMaster == ""
RedisPort == 6379

NodeInfo(host, master, slots) ==
    [host |-> host, port |-> RedisPort, master |-> master, slots |-> slots]

\* the three masters of the demonstration cluster, each with a replica
ThreeMasters ==
    << NodeInfo("172.28.0.5", "172.28.0.2", <<>>),
       NodeInfo("172.28.0.2", NoMaster, << <<0, 5460>> >>),
       NodeInfo("172.28.0.3", NoMaster, << <<5461, 10922>> >>),
       NodeInfo("172.28.0.6", "172.28.0.3", <<>>),
       NodeInfo("172.28.0.4", NoMaster, << <<10923, 16383>> >>),
       NodeInfo("172.28.0.7", "172.28.0.4", <<>>) >>

\* the same cluster after the slots of the third master were moved to the
\* first
Resharded ==
    << NodeInfo("172.28.0.2", NoMaster, << <<0, 5460>>, <<10923, 16383>> >>),
       NodeInfo("172.28.0.3", NoMaster, << <<5461, 10922>> >>),
       NodeInfo("172.28.0.4", NoMaster, <<>>) >>

\* a cluster of one master
SingleMaster == << NodeInfo("172.28.0.2", NoMaster, << <<0, MaxSlot>> >>) >>

Topologies == {ThreeMasters, Resharded, SingleMaster}

RECURSIVE get_node_for_slot(_, _, _)
\* the loop over nodes.items() from the i-th node on: the first master whose
\* first slot range holds the slot, (None, None) when the loop ends
get_node_for_slot(node_infos, i, s) ==
    IF i > Len(node_infos) THEN NoNode
    ELSE IF /\ node_infos[i].master = NoMaster
            /\ node_infos[i].slots # <<>>
            /\ node_infos[i].slots[1][1] <= s
            /\ s <= node_infos[i].slots[1][2]
         THEN [host |-> node_infos[i].host, port |-> node_infos[i].port]
         ELSE get_node_for_slot(node_infos, i + 1, s)

\* get_node_for_key(rc, key): host and port; the slot is returned beside them
get_node_for_key(node_infos, key) ==
    get_node_for_slot(node_infos, 1, cluster_keyslot(key))

\* product_id = f"product:{i:05d}", for i in 1..10
S_product_000 == <<112, 114, 111, 100, 117, 99, 116, 58, 48, 48, 48>>
demo_product_id(i) ==
    S_product_000 \o (IF i = 10 THEN <<49, 48>> ELSE <<48, 48 + i>>)

InitNodes ==
    /\ OwnerIdle
    /\ KeysIdle
    /\ RunIdle
    /\ HashIdle
    /\ ScriptsIdle
    /\ StockIdle
    /\ RateIdle
    /\ CapIdle
    /\ topology \in Topologies
    /\ lookup_slot = -1
    /\ lookup_result = NoNode

nodeRest == <<ownerVars, keyVars, runVars, hashVars, scriptVars, stockVars,
              rateVars, capVars>>

\* get_node_for_key on one of the keys the demonstration stores
LookupKey ==
    /\ lookup_slot = -1
    /\ \E i \in 1..10 :
          /\ lookup_slot' = cluster_keyslot(demo_product_id(i))
          /\ lookup_result' = get_node_for_key(topology, demo_product_id(i))
    /\ UNCHANGED <<topology, nodeRest>>

\* get_node_for_key on a key of the next slot of the slot space
LookupSlot ==
    /\ lookup_slot < MaxSlot
    /\ lookup_slot' = lookup_slot + 1
    /\ lookup_result' = get_node_for_slot(topology, 1, lookup_slot + 1)
    /\ UNCHANGED <<topology, nodeRest>>

NextNodes ==
    \/ LookupKey
    \/ LookupSlot

SpecNodes == InitNodes /\ [][NextNodes]_vars

\* the masters of a topology that own a slot, in any of their ranges
owners(node_infos, s) ==
    {i \in 1..Len(node_infos) :
        /\ node_infos[i].master = NoMaster
        /\ \E r \in 1..Len(node_infos[i].slots) :
              node_infos[i].slots[r][1] <= s /\ s <= node_infos[i].slots[r][2]}

(* C16: get_node_for_key finds the node a key belongs to: in any topology in
   which every slot has exactly one master it returns the host and port of
   the master that owns the key's slot, never (None, None), and for the
   three-master topology it names the master the hardcoded boundary table
   names. *)
C16_FindsOwner ==
    lookup_slot >= 0 =>
        /\ Cardinality(owners(topology, lookup_slot)) = 1
        /\ \A i \in owners(topology, lookup_slot) :
              lookup_result = [host |-> topology[i].host,
                               port |-> topology[i].port]
        /\ lookup_result # NoNode
        /\ topology = ThreeMasters =>
              lookup_result.host = get_master_for_slot(lookup_slot).ip

====
